---- MODULE Spec2Model ----
(***************************************************************************)
(* PhilTreeCrawler: the shared concept graph (concepts, edges), the        *)
(* generation log with its hourly rate limit, and the branch resolution    *)
(* flows (acceptNeighbor, generateNewBranches) that run over the store     *)
(* functions of src/lib/supabase/index.ts and the constraints of           *)
(* supabase/schema.sql.  Beside them: the exploration counter of           *)
(* user_profiles (incrementNodesExplored), the onboarding route            *)
(* POST /api/onboarding/familiarity, and the client stores                 *)
(* useGraphDataStore and useExplorationStore.                              *)
(*                                                                         *)
(* Every database round trip is one atomic step; concurrent invocations    *)
(* interleave between round trips.  Rows are kept in insertion order and   *)
(* a row's id is its position (uuid_generate_v4 gives a fresh id per row). *)
(* Time is counted in minutes.  Similarities are cosine similarities       *)
(* scaled by 100; an embedding is a direction on a circle of twelve steps. *)
(***************************************************************************)
EXTENDS Integers, Sequences, FiniteSets, TLC

\* ---------------------------------------------------------------- bounds
MaxFaults == 1
MaxTicks == 2
TickMinutes == 60
MaxLog == 11

\* ------------------------------------------------------ program constants
HOURLY_GENERATION_LIMIT == 10
WindowMinutes == 60
MatchThreshold == 50
NumBranches == 4
DedupLimit == 1

\* two invocations run concurrently
Procs == {1, 2}
Users == {"u1", "u2"}

\* the inputs tried for the two invocations are the same up to exchanging
\* them: the first belongs to user u1 and starts from concept 1, the second
\* may differ from it in each respect
UsersOf(p) == IF p = 1 THEN {"u1"} ELSE Users
BranchTypes == {"constructive", "critique", "author", "wildcard"}

NULL == -1
NoId == 0
GhostId == 99

Min(a, b) == IF a < b THEN a ELSE b
Max(a, b) == IF a > b THEN a ELSE b
Abs(a) == IF a < 0 THEN 0 - a ELSE a

\* ------------------------------------------------------------------ slugs
\* slugify(name, {lower: true, strict: true}): the replacement character
\* "-" counts as a space, strict mode drops everything that is neither
\* alphanumeric nor whitespace, the result is trimmed, whitespace runs
\* become one "-", and the whole is lowercased.
Upper == {"A", "B"}
Alnum == {"A", "B", "a", "b", "s", "t"}

ToLower(c) == IF c = "A" THEN "a" ELSE IF c = "B" THEN "b" ELSE c

DashToSpace(c) == IF c = "-" THEN " " ELSE c

IsSlugChar(c) == c \in Alnum \/ c = " "

RECURSIVE TrimLeft(_)
TrimLeft(s) ==
  IF s = <<>> THEN <<>>
  ELSE IF Head(s) = " " THEN TrimLeft(Tail(s)) ELSE s

RECURSIVE TrimRight(_)
TrimRight(s) ==
  IF s = <<>> THEN <<>>
  ELSE IF s[Len(s)] = " " THEN TrimRight(SubSeq(s, 1, Len(s) - 1)) ELSE s

RECURSIVE CollapseSpaces(_)
CollapseSpaces(s) ==
  IF s = <<>> THEN <<>>
  ELSE IF Head(s) = " "
       THEN <<"-">> \o CollapseSpaces(TrimLeft(s))
       ELSE <<Head(s)>> \o CollapseSpaces(Tail(s))

MapSeq(s, Op(_)) == [i \in 1..Len(s) |-> Op(s[i])]

Slugify(name) ==
  LET spaced == MapSeq(name, DashToSpace)
      strict == SelectSeq(spaced, IsSlugChar)
      trimmed == TrimRight(TrimLeft(strict))
  IN MapSeq(CollapseSpaces(trimmed), ToLower)

\* ------------------------------------------------------------- embeddings
\* 1 - cosine distance of two directions that are k steps (of 30 degrees)
\* apart, times 100.
CosTimes100 == <<100, 87, 50, 0, -50, -87, -100>>

Directions == 0..11

Similarity(a, b) ==
  LET d == Abs(a - b) IN CosTimes100[Min(d, 12 - d) + 1]

\* concept names that occur, and the vector the embedding service returns
\* for each of them
N_Ab == <<"A", "b">>
N_ab == <<"a", "b">>
N_a_b == <<"a", " ", "b">>
N_b == <<"b", "!">>
N_s == <<"s">>
N_t == <<"t">>

EmbeddingOf(name) ==
  IF name = N_Ab THEN 0
  ELSE IF name = N_ab THEN 0
  ELSE IF name = N_a_b THEN 1
  ELSE IF name = N_b THEN 2
  ELSE IF name = N_s THEN 5
  ELSE 6

\* --------------------------------------------------------------- variables
VARIABLES
  concepts,   \* table concepts: sequence of [name, slug, embedding]
  edges,      \* table edges: sequence of [source_id, target_id, branch_type, description, created_at]
  log,        \* table user_generation_log: [user, generated_at] -> number of rows
  now,        \* the clock, in minutes
  ticks,      \* how often the clock advanced
  faults,     \* how many external failures were injected so far
  pc,         \* per invocation: where it stands
  call,       \* per invocation: its arguments
  batch,      \* per invocation: the validated branch candidates
  idx,        \* per invocation: the candidate being resolved
  cur,        \* per invocation: the candidate's embedding and resolved target
  ret,        \* per invocation: what it returned
  wrote,      \* per invocation: rows it inserted, per table (history)
  rl,         \* rate limiter calls made directly: last and previous check
  nn,         \* findNearestConcepts called directly: the last call and its result
  stats,      \* table branch_analytics: sequence of [concept_id, branch_type, chosen_count]
  stat,       \* per invocation: its incrementBranchStat call
  profiles,   \* table user_profiles: user -> [nodes_explored, graph_unlocked, onboarding_complete]
  inc,        \* incrementNodesExplored: the calls under way and the calls completed
  graphData,  \* client store useGraphDataStore: visitedNodes, nodes, edges
  exploration, \* client store useExplorationStore: path, and the last operation on it
  onboarding  \* POST /api/onboarding/familiarity: the familiarity tables and the request

vars == <<concepts, edges, log, now, ticks, faults, pc, call, batch, idx, cur, ret, wrote, rl,
          nn, stats, stat, profiles, inc, graphData, exploration, onboarding>>

\* the variables of the shared graph, the limiter and the engine
graphVars == <<concepts, edges, log, now, ticks, faults, pc, call, batch, idx, cur, ret, wrote,
               rl, nn, stats, stat>>

ConceptIds == 1..Len(concepts)
EdgeIds == 1..Len(edges)

\* ----------------------------------------------------------- concept store
\* variant: only the name is unique
ConceptUniqueViolation_NameOnly(cs, name, slug) ==
  \E i \in 1..Len(cs) : cs[i].name = name

\* UNIQUE on concepts.name and concepts.slug
ConceptUniqueViolation(cs, name, slug) ==
  \E i \in 1..Len(cs) : cs[i].name = name \/ cs[i].slug = slug

\* variant: the slug is compared with the name column
GetConceptBySlug_ByName(cs, slug) ==
  IF \E i \in 1..Len(cs) : cs[i].name = slug
  THEN CHOOSE i \in 1..Len(cs) : cs[i].name = slug
  ELSE NoId

\* getConceptBySlug: the id of the concept with that slug, NoId when none
GetConceptBySlug(cs, slug) ==
  IF \E i \in 1..Len(cs) : cs[i].slug = slug
  THEN CHOOSE i \in 1..Len(cs) : cs[i].slug = slug
  ELSE NoId

\* ------------------------------------------------------------- edge store
\* variant: only source_id references concepts(id)
EdgeForeignKeyViolation_SourceOnly(cs, s, t) ==
  ~ (s \in 1..Len(cs))

\* REFERENCES concepts(id) on edges.source_id and edges.target_id
EdgeForeignKeyViolation(cs, s, t) ==
  ~ (s \in 1..Len(cs) /\ t \in 1..Len(cs))

\* variant: no uniqueness constraint on the pair
EdgeUniqueViolation_Off(es, s, t) == FALSE

\* UNIQUE(source_id, target_id)
EdgeUniqueViolation(es, s, t) ==
  \E i \in 1..Len(es) : es[i].source_id = s /\ es[i].target_id = t

\* the row an insert into edges stores
EdgeRow(s, t, bt, d, at) ==
  [source_id |-> s, target_id |-> t, branch_type |-> bt, description |-> d,
   created_at |-> at]

\* variant: the insert is an upsert that overwrites the row of the pair
EdgesAfterInsert_Upsert(es, cs, s, t, bt, d, at) ==
  IF EdgeForeignKeyViolation(cs, s, t) \/ bt \notin BranchTypes
  THEN es
  ELSE IF EdgeUniqueViolation(es, s, t)
  THEN [i \in 1..Len(es) |->
          IF es[i].source_id = s /\ es[i].target_id = t
          THEN EdgeRow(s, t, bt, d, at) ELSE es[i]]
  ELSE Append(es, EdgeRow(s, t, bt, d, at))

\* createEdge's insert: the table after it
EdgesAfterInsert(es, cs, s, t, bt, d, at) ==
  IF EdgeForeignKeyViolation(cs, s, t) \/ bt \notin BranchTypes
       \/ EdgeUniqueViolation(es, s, t)
  THEN es
  ELSE Append(es, EdgeRow(s, t, bt, d, at))

\* variant: the duplicate error is not followed by a select
SelectEdgeByPair_None(es, s, t) == NoId

\* createEdge's select after error 23505: the id of the existing edge
SelectEdgeByPair(es, s, t) ==
  IF EdgeUniqueViolation(es, s, t)
  THEN CHOOSE i \in 1..Len(es) : es[i].source_id = s /\ es[i].target_id = t
  ELSE NoId

\* the Edge object createEdge returns for row id of the table
EdgeObject(es, id) ==
  [id |-> id, source_id |-> es[id].source_id, target_id |-> es[id].target_id,
   branch_type |-> es[id].branch_type, description |-> es[id].description,
   created_at |-> es[id].created_at]

NullEdge ==
  [id |-> NoId, source_id |-> NoId, target_id |-> NoId, branch_type |-> "",
   description |-> "", created_at |-> 0]

\* ------------------------------------------------ nearest-neighbour search
\* variant: rows without an embedding are not filtered out
HasEmbedding_Always(cs, i) == TRUE

\* c.embedding IS NOT NULL, .not("embedding", "is", null)
HasEmbedding(cs, i) == cs[i].embedding # NULL

\* match_concepts WHERE clause: embedded and similarity > match_threshold
MatchQualifies(cs, i, q, th) ==
  HasEmbedding(cs, i) /\ Similarity(cs[i].embedding, q) > th

\* variant: the order is descending by distance
Closest_Farthest(cs, S, q) ==
  {i \in S : \A j \in S :
     Similarity(cs[i].embedding, q) <= Similarity(cs[j].embedding, q)}

\* the rows of S that ORDER BY embedding <=> query may put first
Closest(cs, S, q) ==
  {i \in S : \A j \in S :
     Similarity(cs[i].embedding, q) >= Similarity(cs[j].embedding, q)}

\* every result ORDER BY distance LIMIT n can give on S (ties in any order)
RECURSIVE OrderedByDistance(_, _, _, _)
OrderedByDistance(cs, S, q, n) ==
  IF n = 0 \/ S = {} THEN {<<>>}
  ELSE UNION {{<<i>> \o r : r \in OrderedByDistance(cs, S \ {i}, q, n - 1)} :
              i \in Closest(cs, S, q)}

\* match_concepts(query_embedding, match_threshold, match_count)
MatchConcepts(cs, q, th, n) ==
  OrderedByDistance(cs, {i \in 1..Len(cs) : MatchQualifies(cs, i, q, th)}, q, n)

\* every result a select without ORDER BY, LIMIT n, can give on S
RECURSIVE AnyOrder(_, _)
AnyOrder(S, n) ==
  IF n = 0 \/ S = {} THEN {<<>>}
  ELSE UNION {{<<i>> \o r : r \in AnyOrder(S \ {i}, n - 1)} : i \in S}

\* .filter((c) => !excludeIds.includes(c.id)).slice(0, limit)
FilterAndSlice(rows, excludeIds, limit) ==
  LET kept == SelectSeq(rows, LAMBDA i : i \notin excludeIds)
  IN SubSeq(kept, 1, Min(limit, Len(kept)))

RpcOutcomes == {"ok", "fallback", "fail"}

\* findNearestConcepts(embedding, limit, excludeIds): the results it can
\* return when the RPC answers ("ok"), when the RPC fails and the fallback
\* select answers ("fallback"), and when both fail ("fail")
FindNearestConcepts(cs, q, limit, excludeIds, rpc) ==
  IF rpc = "ok"
  THEN {FilterAndSlice(rows, excludeIds, limit) :
          rows \in MatchConcepts(cs, q, MatchThreshold,
                                 limit + Cardinality(excludeIds))}
  ELSE IF rpc = "fallback"
  THEN {FilterAndSlice(rows, excludeIds, limit) :
          rows \in AnyOrder({i \in 1..Len(cs) : HasEmbedding(cs, i)}, limit * 2)}
  ELSE {<<>>}

\* ---------------------------------------------------------- rate limiter
Times == {k * TickMinutes : k \in 0..MaxTicks}

Repeat(x, n) == [i \in 1..n |-> x]

\* .eq("user_id", userId).gte("generated_at", oneHourAgo)
\* .order("generated_at", {ascending: true}): the generated_at column of the
\* selected rows, scanning the clock values k * TickMinutes upwards
RECURSIVE SelectLogRows(_, _, _, _)

\* variant: .gt instead of .gte
SelectLogRows_Strict(lg, u, oneHourAgo, k) ==
  IF k * TickMinutes \notin Times THEN <<>>
  ELSE (IF k * TickMinutes > oneHourAgo
        THEN Repeat(k * TickMinutes, lg[<<u, k * TickMinutes>>])
        ELSE <<>>) \o SelectLogRows(lg, u, oneHourAgo, k + 1)

SelectLogRows(lg, u, oneHourAgo, k) ==
  IF k * TickMinutes \notin Times THEN <<>>
  ELSE (IF k * TickMinutes >= oneHourAgo
        THEN Repeat(k * TickMinutes, lg[<<u, k * TickMinutes>>])
        ELSE <<>>) \o SelectLogRows(lg, u, oneHourAgo, k + 1)

NoReset == -1

\* variant: the limit itself still passes
UnderLimit_Inclusive(count) == count <= HOURLY_GENERATION_LIMIT

\* allowed = count < HOURLY_GENERATION_LIMIT
UnderLimit(count) == count < HOURLY_GENERATION_LIMIT

\* variant: a failed count query denies
CheckRateLimit_FailClosed(lg, u, t, ok) ==
  IF ~ ok
  THEN [allowed |-> FALSE, remaining |-> 0, resetAt |-> NoReset]
  ELSE LET count == Len(SelectLogRows(lg, u, t - WindowMinutes, 0))
       IN [allowed |-> UnderLimit(count),
           remaining |-> Max(0, HOURLY_GENERATION_LIMIT - count),
           resetAt |-> NoReset]

\* checkRateLimit(userId) at time t; ok is whether the count query succeeded
CheckRateLimit(lg, u, t, ok) ==
  IF ~ ok
  THEN [allowed |-> TRUE, remaining |-> HOURLY_GENERATION_LIMIT, resetAt |-> NoReset]
  ELSE LET rows == SelectLogRows(lg, u, t - WindowMinutes, 0)
           count == Len(rows)
           allowed == UnderLimit(count)
       IN [allowed |-> allowed,
           remaining |-> Max(0, HOURLY_GENERATION_LIMIT - count),
           resetAt |-> IF ~ allowed /\ Len(rows) > 0
                       THEN rows[1] + WindowMinutes ELSE NoReset]

\* variant: the event is inserted twice
LogGeneration_Twice(lg, u, t, ok) ==
  IF ok THEN [lg EXCEPT ![<<u, t>>] = @ + 2] ELSE lg

\* logGeneration(userId) at time t: the table after the insert; an insert
\* error is logged and swallowed
LogGeneration(lg, u, t, ok) ==
  IF ok THEN [lg EXCEPT ![<<u, t>>] = @ + 1] ELSE lg

\* number of u's rows in the table
LogRowsOf(lg, u) == Len(SelectLogRows(lg, u, 0, 0))

\* -------------------------------------------------------- analytics counter
\* branch_analytics UNIQUE(concept_id, branch_type)
StatUniqueViolation(ss, c, bt) ==
  \E i \in 1..Len(ss) : ss[i].concept_id = c /\ ss[i].branch_type = bt

\* .eq("concept_id", conceptId).eq("branch_type", branchType).single():
\* the id of the row, NoId when there is none
SelectStat(ss, c, bt) ==
  IF StatUniqueViolation(ss, c, bt)
  THEN CHOOSE i \in 1..Len(ss) : ss[i].concept_id = c /\ ss[i].branch_type = bt
  ELSE NoId

\* insert {concept_id, branch_type, chosen_count: 1}: the table after it
StatsAfterInsert(ss, c, bt) ==
  IF StatUniqueViolation(ss, c, bt)
  THEN ss
  ELSE Append(ss, [concept_id |-> c, branch_type |-> bt, chosen_count |-> 1])

\* update({chosen_count: n}).eq("id", id): the table after it
StatsAfterUpdate(ss, id, n) == [ss EXCEPT ![id].chosen_count = n]

\* increment_branch_stat: INSERT ... ON CONFLICT (concept_id, branch_type)
\* DO UPDATE SET chosen_count = chosen_count + 1, in one statement
IncrementBranchStatRpc(ss, c, bt) ==
  IF StatUniqueViolation(ss, c, bt)
  THEN [ss EXCEPT ![SelectStat(ss, c, bt)].chosen_count = @ + 1]
  ELSE StatsAfterInsert(ss, c, bt)

\* variant: an error of the counter update is thrown to the caller
IncrementBranchStatResult_Throws(failed) == IF failed THEN "threw" ELSE "void"

\* how incrementBranchStat ends: no error of the RPC, the select, the update
\* or the insert is thrown or returned
IncrementBranchStatResult(failed) == "void"

\* ------------------------------------------------------ generation service
Candidate(ty, name, d) == [type |-> ty, target_name |-> name, description |-> d]

\* two well-formed answers of the model
BatchV1 ==
  <<Candidate("constructive", N_Ab, "d1"), Candidate("critique", N_ab, "d2"),
    Candidate("author", N_a_b, "d1"), Candidate("wildcard", N_b, "d2")>>

BatchV2 ==
  <<Candidate("constructive", N_a_b, "d2"), Candidate("critique", N_b, "d1"),
    Candidate("author", N_Ab, "d2"), Candidate("wildcard", N_ab, "d1")>>

\* answers that parse as JSON but are not four well-formed branches
BatchThree == SubSeq(BatchV1, 1, 3)
BatchFive == Append(BatchV1, Candidate("wildcard", N_s, "d1"))
BatchBadType == [BatchV1 EXCEPT ![2] = Candidate("other", N_ab, "d2")]
BatchRepeatedType == [BatchV1 EXCEPT ![4] = Candidate("author", N_b, "d2")]
BatchEmptyName == [BatchV1 EXCEPT ![3] = Candidate("author", <<>>, "d1")]
BatchEmptyDescription == [BatchV1 EXCEPT ![4] = Candidate("wildcard", N_b, "")]

WellFormedBatches == {BatchV1, BatchV2}

\* the well-formed answer the model gives for source concept s
WellFormedBatchFor(s) == IF s = 1 THEN BatchV1 ELSE BatchV2

MalformedBatches ==
  {<<>>, BatchThree, BatchFive, BatchBadType, BatchRepeatedType,
   BatchEmptyName, BatchEmptyDescription}

\* what model.generateContent can do: throw (timeout, service unavailable)
\* or answer a text that is JSON, JSON in a code fence, JSON inside prose,
\* or no JSON at all
TextForms == {"json", "fenced", "embedded", "garbage"}

ServiceReplies(s) ==
  {[threw |-> TRUE, form |-> "garbage", value |-> <<>>]}
  \cup {[threw |-> FALSE, form |-> "garbage", value |-> <<>>]}
  \cup {[threw |-> FALSE, form |-> f, value |-> b] :
          f \in TextForms \ {"garbage"}, b \in {WellFormedBatchFor(s)} \cup MalformedBatches}

NullGeneration == [isNull |-> TRUE, branches |-> <<>>]

\* parseJsonResponse: direct parse, then the code fence, then the first
\* {...} of the text; null when none of them parses
ParseJsonResponse(text) ==
  IF text.form \in {"json", "fenced", "embedded"}
  THEN [isNull |-> FALSE, branches |-> text.value]
  ELSE NullGeneration

\* how a reply of the service ended: it threw, or it answered a text
ReplyKind(reply) ==
  IF reply.threw THEN "threw" ELSE IF reply.form = "garbage" THEN "garbage" ELSE "text"

\* variant: a default batch stands in for a call that threw
GenerateBranches_DefaultOnThrow(reply) ==
  IF reply.threw THEN [isNull |-> FALSE, branches |-> BatchV1]
  ELSE ParseJsonResponse(reply)

\* generateBranches: null when the call throws, else the parsed answer
GenerateBranches(reply) ==
  IF reply.threw THEN NullGeneration ELSE ParseJsonResponse(reply)

\* variant: candidates are checked one by one, the batch as a whole is not
IsUsableBatch_PerCandidate(g) ==
  /\ ~ g.isNull
  /\ Len(g.branches) >= 1
  /\ \A i \in 1..Len(g.branches) :
       /\ g.branches[i].type \in BranchTypes
       /\ g.branches[i].target_name # <<>> /\ g.branches[i].description # ""

\* the engine's validation of a batch: exactly four candidates, the four
\* types each once, non-empty target name and description
IsUsableBatch(g) ==
  /\ ~ g.isNull
  /\ Len(g.branches) = NumBranches
  /\ {g.branches[i].type : i \in 1..Len(g.branches)} = BranchTypes
  /\ \A i \in 1..Len(g.branches) :
       g.branches[i].target_name # <<>> /\ g.branches[i].description # ""

\* generateConceptEmbedding(name, description): the vector, or null on error
EmbeddingReplies(name, d) == {EmbeddingOf(name), NULL}

\* ------------------------------------------------------------ invocations
NoCall ==
  [kind |-> "none", user |-> "u1", source |-> NoId, target |-> NoId,
   branch_type |-> "", description |-> ""]

NoCur == [embedding |-> NULL, target |-> NoId, rpc |-> "none", seen |-> 0,
          tried |-> FALSE, created |-> FALSE]

NoRate == [allowed |-> FALSE, remaining |-> -1, resetAt |-> NoReset]

NoRet ==
  [outcome |-> "", edge |-> NullEdge, duplicate |-> FALSE, edges |-> <<>>,
   cands |-> <<>>, rate |-> NoRate, rateOk |-> FALSE, service |-> "",
   gen |-> NullGeneration]

NoWrites == [concepts |-> 0, edges |-> 0, log |-> 0]

NoRl ==
  [valid |-> FALSE, user |-> "u1", ok |-> FALSE, res |-> NoRate, at |-> 0,
   afterCalls |-> 0, afterRows |-> 0,
   hasPrev |-> FALSE, prevOk |-> FALSE, prev |-> NoRate, prevAt |-> 0,
   betweenCalls |-> 0, betweenRows |-> 0]

NoNn ==
  [valid |-> FALSE, q |-> 0, limit |-> 0, excludeIds |-> {}, rpc |-> "none",
   result |-> <<>>, size |-> 0, offer |-> FALSE, source |-> NoId,
   canGenerate |-> FALSE]

NoStat ==
  [phase |-> "none", existing |-> NoId, count |-> 0, failed |-> FALSE, result |-> ""]

\* a user_profiles row some explorations after sign-up
ExploredAtStart == 8

NewProfile ==
  [onboarding_complete |-> FALSE, nodes_explored |-> ExploredAtStart,
   graph_unlocked |-> FALSE]

NoIncCall == [phase |-> "none", user |-> "u1", nodes_explored |-> 0,
              graph_unlocked |-> FALSE, made |-> 0]

NoInc ==
  [at |-> [p \in Procs |-> NoIncCall],
   completed |-> [u \in Users |-> 0],
   failed |-> FALSE]

EmptyGraph == [visitedNodes |-> {}, nodes |-> <<>>, edges |-> <<>>]

NoExploration == [path |-> <<>>, op |-> "none", returned |-> <<>>]

NoOnboarding ==
  [texts |-> {}, categories |-> {}, phase |-> "none", requests |-> 0,
   user |-> "", body |-> "", response |-> 0, textsOk |-> FALSE,
   categoriesOk |-> FALSE, completeOk |-> FALSE]

SeedConcept(name) ==
  [name |-> name, slug |-> Slugify(name), embedding |-> EmbeddingOf(name)]

Init ==
  /\ concepts = <<SeedConcept(N_s), SeedConcept(N_t)>>
  /\ edges = <<>>
  /\ log = [k \in Users \X Times |->
              IF k = <<"u1", 0>> THEN HOURLY_GENERATION_LIMIT - 1
              ELSE IF k = <<"u2", 0>> THEN HOURLY_GENERATION_LIMIT ELSE 0]
  /\ now = 0
  /\ ticks = 0
  /\ faults = 0
  /\ pc = [p \in Procs |-> "idle"]
  /\ call = [p \in Procs |-> NoCall]
  /\ batch = [p \in Procs |-> <<>>]
  /\ idx = [p \in Procs |-> 0]
  /\ cur = [p \in Procs |-> NoCur]
  /\ ret = [p \in Procs |-> NoRet]
  /\ wrote = [p \in Procs |-> NoWrites]
  /\ rl = NoRl
  /\ nn = NoNn
  /\ stats = <<>>
  /\ stat = [p \in Procs |-> NoStat]
  /\ profiles = [u \in Users |-> NewProfile]
  /\ inc = NoInc
  /\ graphData = EmptyGraph
  /\ exploration = NoExploration
  /\ onboarding = NoOnboarding

\* the clock advances
Tick ==
  /\ ticks < MaxTicks
  /\ ticks' = ticks + 1
  /\ now' = now + TickMinutes
  /\ UNCHANGED <<concepts, edges, log, faults, pc, call, batch, idx, cur, ret, wrote, rl, nn, stats, stat, profiles, inc, graphData, exploration, onboarding>>

\* an invocation returns
Finish(p, r) ==
  /\ pc' = [pc EXCEPT ![p] = "done"]
  /\ ret' = [ret EXCEPT ![p] = r]

\* what the engine keeps of a resolved candidate
CandidateRecord(c, e) ==
  [embedding |-> c.embedding, rpc |-> c.rpc, seen |-> c.seen,
   tried |-> c.tried, created |-> c.created, target |-> c.target]

\* createEdge returned edge e to invocation p (duplicate: through the
\* 23505 branch)
EdgeReturned(p, e, duplicate) ==
  IF call[p].kind = "accept"
  THEN /\ Finish(p, [ret[p] EXCEPT !.outcome = IF e.id = NoId THEN "StoreFailure" ELSE "Edge",
                                   !.edge = e, !.duplicate = duplicate])
       /\ UNCHANGED <<idx, cur>>
  ELSE IF e.id = NoId
  THEN /\ Finish(p, [ret[p] EXCEPT !.outcome = "StoreFailure"])
       /\ UNCHANGED <<idx, cur>>
  ELSE /\ ret' = [ret EXCEPT ![p].edges = Append(@, e),
                             ![p].cands = Append(@, CandidateRecord(cur[p], e))]
       /\ cur' = [cur EXCEPT ![p] = NoCur]
       /\ IF idx[p] < Len(batch[p])
          THEN /\ idx' = [idx EXCEPT ![p] = @ + 1]
               /\ pc' = [pc EXCEPT ![p] = "gen_resolve"]
          ELSE /\ idx' = idx
               /\ pc' = [pc EXCEPT ![p] = "gen_log"]

\* the arguments of the createEdge call invocation p is in
EdgeArgs(p) ==
  IF call[p].kind = "accept"
  THEN [s |-> call[p].source, t |-> call[p].target,
        bt |-> call[p].branch_type, d |-> call[p].description]
  ELSE [s |-> call[p].source, t |-> cur[p].target,
        bt |-> batch[p][idx[p]].type, d |-> batch[p][idx[p]].description]

\* the calls of acceptNeighbor that are tried: existing and missing
\* concepts, two labellings of the edge
AcceptPairs == {<<1, 2>>, <<1, 3>>, <<1, GhostId>>, <<GhostId, 2>>}
AcceptLabels == {<<"constructive", "d1">>, <<"wildcard", "d2">>}

\* acceptNeighbor(source, target, user) is called for one of the pairs
StartAcceptAmong(p, pairs) ==
  /\ pc[p] = "idle"
  /\ \E u \in UsersOf(p), st \in pairs, l \in AcceptLabels :
       call' = [call EXCEPT ![p] = [kind |-> "accept", user |-> u, source |-> st[1],
                                    target |-> st[2], branch_type |-> l[1], description |-> l[2]]]
  /\ pc' = [pc EXCEPT ![p] = "edge_insert"]
  /\ UNCHANGED <<concepts, edges, log, now, ticks, faults, batch, idx, cur, ret, wrote, rl, nn, stats, stat, profiles, inc, graphData, exploration, onboarding>>

StartAccept(p) == StartAcceptAmong(p, AcceptPairs)

\* variant: creating an edge is charged to the user's quota
CreateEdgeInsert_Logged(p) ==
  /\ pc[p] = "edge_insert"
  /\ LET a == EdgeArgs(p)
         after == EdgesAfterInsert(edges, concepts, a.s, a.t, a.bt, a.d, now)
     IN /\ edges' = after
        /\ IF after # edges
           THEN /\ wrote' = [wrote EXCEPT ![p].edges = @ + 1]
                /\ EdgeReturned(p, EdgeObject(after, Len(after)), FALSE)
           ELSE IF EdgeUniqueViolation(edges, a.s, a.t)
           THEN /\ pc' = [pc EXCEPT ![p] = "edge_select"]
                /\ UNCHANGED <<wrote, ret, idx, cur>>
           ELSE /\ wrote' = wrote
                /\ EdgeReturned(p, NullEdge, FALSE)
  /\ log' = LogGeneration(log, call[p].user, now, LogRowsOf(log, call[p].user) < MaxLog)
  /\ UNCHANGED <<concepts, now, ticks, faults, call, batch, rl, nn, stats, stat, profiles, inc, graphData, exploration, onboarding>>

\* createEdge: the insert and what follows from its outcome
CreateEdgeInsert(p) ==
  /\ pc[p] = "edge_insert"
  /\ LET a == EdgeArgs(p)
         after == EdgesAfterInsert(edges, concepts, a.s, a.t, a.bt, a.d, now)
     IN /\ edges' = after
        /\ IF after # edges
           THEN /\ wrote' = [wrote EXCEPT ![p].edges = @ + 1]
                /\ EdgeReturned(p, EdgeObject(after, Len(after)), FALSE)
           ELSE IF EdgeUniqueViolation(edges, a.s, a.t)
           THEN /\ pc' = [pc EXCEPT ![p] = "edge_select"]
                /\ UNCHANGED <<wrote, ret, idx, cur>>
           ELSE /\ wrote' = wrote
                /\ EdgeReturned(p, NullEdge, FALSE)
  /\ UNCHANGED <<concepts, log, now, ticks, faults, call, batch, rl, nn, stats, stat, profiles, inc, graphData, exploration, onboarding>>

\* createEdge, error 23505: select the existing edge of the pair
CreateEdgeSelect(p) ==
  /\ pc[p] = "edge_select"
  /\ LET a == EdgeArgs(p)
         id == SelectEdgeByPair(edges, a.s, a.t)
     IN EdgeReturned(p, IF id = NoId THEN NullEdge ELSE EdgeObject(edges, id), TRUE)
  /\ UNCHANGED <<concepts, edges, log, now, ticks, faults, call, batch, wrote, rl, nn, stats, stat, profiles, inc, graphData, exploration, onboarding>>

\* the source concepts generation is asked for: the two seed concepts
GenerateSources == {1, 2}

GenerateSourcesOf(p) == IF p = 1 THEN {1} ELSE GenerateSources

\* generateNewBranches(source, user) is called
StartGenerate(p) ==
  /\ pc[p] = "idle"
  /\ \E u \in UsersOf(p), s \in GenerateSourcesOf(p) :
       call' = [call EXCEPT ![p] = [kind |-> "generate", user |-> u, source |-> s,
                                    target |-> NoId, branch_type |-> "", description |-> ""]]
  /\ pc' = [pc EXCEPT ![p] = "gen_check"]
  /\ UNCHANGED <<concepts, edges, log, now, ticks, faults, batch, idx, cur, ret, wrote, rl, nn, stats, stat, profiles, inc, graphData, exploration, onboarding>>

\* an external failure is injected only while the budget lasts
Inject(failed) ==
  IF failed THEN faults < MaxFaults /\ faults' = faults + 1 ELSE faults' = faults

\* variant: a denial ends the call without the limiter's answer
GenCheck_Silent(p) ==
  /\ pc[p] = "gen_check"
  /\ \E ok \in BOOLEAN :
       /\ Inject(~ ok)
       /\ IF CheckRateLimit(log, call[p].user, now, ok).allowed
          THEN /\ pc' = [pc EXCEPT ![p] = "gen_call"]
               /\ ret' = [ret EXCEPT ![p].rate = CheckRateLimit(log, call[p].user, now, ok),
                                      ![p].rateOk = ok]
          ELSE Finish(p, [ret[p] EXCEPT !.outcome = "RateLimitExceeded"])
  /\ UNCHANGED <<concepts, edges, log, now, ticks, call, batch, idx, cur, wrote, rl, nn, stats, stat, profiles, inc, graphData, exploration, onboarding>>

\* the engine asks the rate limiter
GenCheck(p) ==
  /\ pc[p] = "gen_check"
  /\ \E ok \in BOOLEAN :
       /\ Inject(~ ok)
       /\ LET res == CheckRateLimit(log, call[p].user, now, ok)
          IN IF res.allowed
             THEN /\ pc' = [pc EXCEPT ![p] = "gen_call"]
                  /\ ret' = [ret EXCEPT ![p].rate = res, ![p].rateOk = ok]
             ELSE Finish(p, [ret[p] EXCEPT !.outcome = "RateLimitExceeded",
                                           !.rate = res, !.rateOk = ok])
  /\ UNCHANGED <<concepts, edges, log, now, ticks, call, batch, idx, cur, wrote, rl, nn, stats, stat, profiles, inc, graphData, exploration, onboarding>>

\* the engine calls generateBranches once and validates the batch
GenCall(p) ==
  /\ pc[p] = "gen_call"
  /\ \E reply \in ServiceReplies(call[p].source) :
       LET g == GenerateBranches(reply)
       IN IF IsUsableBatch(g)
          THEN /\ batch' = [batch EXCEPT ![p] = g.branches]
               /\ idx' = [idx EXCEPT ![p] = 1]
               /\ pc' = [pc EXCEPT ![p] = "gen_resolve"]
               /\ ret' = [ret EXCEPT ![p].gen = g, ![p].service = ReplyKind(reply)]
          ELSE /\ Finish(p, [ret[p] EXCEPT !.outcome = "GenerationFailed", !.gen = g,
                                           !.service = ReplyKind(reply)])
               /\ UNCHANGED <<batch, idx>>
  /\ UNCHANGED <<concepts, edges, log, now, ticks, faults, call, cur, wrote, rl, nn, stats, stat, profiles, inc, graphData, exploration, onboarding>>

\* steps 4a-4c: embed the candidate and look for a near-duplicate
GenResolve(p) ==
  /\ pc[p] = "gen_resolve"
  /\ LET c == batch[p][idx[p]]
     IN \E e \in EmbeddingReplies(c.target_name, c.description) :
          IF e = NULL
          THEN /\ Inject(TRUE)
               /\ cur' = [cur EXCEPT ![p] = [NoCur EXCEPT !.seen = Len(concepts)]]
               /\ pc' = [pc EXCEPT ![p] = "gen_create"]
          ELSE \E rpc \in RpcOutcomes :
                 /\ Inject(rpc # "ok")
                 /\ \E r \in FindNearestConcepts(concepts, e, DedupLimit, {}, rpc) :
                      /\ cur' = [cur EXCEPT ![p] =
                                   [embedding |-> e,
                                    target |-> IF r = <<>> THEN NoId ELSE r[1],
                                    rpc |-> rpc, seen |-> Len(concepts),
                                    tried |-> FALSE, created |-> FALSE]]
                      /\ pc' = [pc EXCEPT ![p] = IF r = <<>> THEN "gen_create" ELSE "edge_insert"]
  /\ UNCHANGED <<concepts, edges, log, now, ticks, call, batch, idx, ret, wrote, rl, nn, stats, stat, profiles, inc, graphData, exploration, onboarding>>

\* variant: the insert is an upsert on the slug
ConceptsAfterInsert_Replace(cs, name, e) ==
  IF ConceptUniqueViolation(cs, name, Slugify(name))
  THEN [cs EXCEPT ![GetConceptBySlug(cs, Slugify(name))] =
          [name |-> name, slug |-> Slugify(name), embedding |-> e]]
  ELSE Append(cs, [name |-> name, slug |-> Slugify(name), embedding |-> e])

\* createConcept's insert: the table after it
ConceptsAfterInsert(cs, name, e) ==
  IF ConceptUniqueViolation(cs, name, Slugify(name))
  THEN cs
  ELSE Append(cs, [name |-> name, slug |-> Slugify(name), embedding |-> e])

\* step 4d: createConcept; null (any insert error) sends the engine to the
\* re-fetch by slug
GenCreate(p) ==
  /\ pc[p] = "gen_create"
  /\ LET c == batch[p][idx[p]]
         after == ConceptsAfterInsert(concepts, c.target_name, cur[p].embedding)
     IN /\ concepts' = after
        /\ IF after # concepts
           THEN /\ cur' = [cur EXCEPT ![p].target = Len(after), ![p].tried = TRUE,
                                       ![p].created = TRUE]
                /\ wrote' = [wrote EXCEPT ![p].concepts = @ + 1]
                /\ pc' = [pc EXCEPT ![p] = "edge_insert"]
           ELSE /\ cur' = [cur EXCEPT ![p].tried = TRUE]
                /\ pc' = [pc EXCEPT ![p] = "gen_refetch"]
                /\ wrote' = wrote
  /\ UNCHANGED <<edges, log, now, ticks, faults, call, batch, idx, ret, rl, nn, stats, stat, profiles, inc, graphData, exploration, onboarding>>

\* variant: after a slug collision the insert is tried again
GenRefetch_Retry(p) ==
  /\ pc[p] = "gen_refetch"
  /\ pc' = [pc EXCEPT ![p] = "gen_create"]
  /\ UNCHANGED <<concepts, edges, log, now, ticks, faults, call, batch, idx, cur, ret, wrote, rl, nn, stats, stat, profiles, inc, graphData, exploration, onboarding>>

\* step 4d, slug collision: getConceptBySlug and go on with that concept
GenRefetch(p) ==
  /\ pc[p] = "gen_refetch"
  /\ LET t == GetConceptBySlug(concepts, Slugify(batch[p][idx[p]].target_name))
     IN IF t = NoId
        THEN /\ Finish(p, [ret[p] EXCEPT !.outcome = "StoreFailure"])
             /\ cur' = cur
        ELSE /\ cur' = [cur EXCEPT ![p].target = t]
             /\ pc' = [pc EXCEPT ![p] = "edge_insert"]
             /\ ret' = ret
  /\ UNCHANGED <<concepts, edges, log, now, ticks, faults, call, batch, idx, wrote, rl, nn, stats, stat, profiles, inc, graphData, exploration, onboarding>>

\* step 4f: logGeneration once, then RESOLVED
GenLog(p) ==
  /\ pc[p] = "gen_log"
  /\ \E ok \in BOOLEAN :
       /\ Inject(~ ok)
       /\ log' = LogGeneration(log, call[p].user, now, ok)
       /\ wrote' = [wrote EXCEPT ![p].log = IF ok THEN @ + 1 ELSE @]
  /\ Finish(p, [ret[p] EXCEPT !.outcome = "Resolved"])
  /\ UNCHANGED <<concepts, edges, now, ticks, call, batch, idx, cur, rl, nn, stats, stat, profiles, inc, graphData, exploration, onboarding>>

Next ==
  \/ \E p \in Procs : StartAccept(p)
  \/ \E p \in Procs : StartGenerate(p)
  \/ \E p \in Procs : CreateEdgeInsert(p)
  \/ \E p \in Procs : CreateEdgeSelect(p)
  \/ \E p \in Procs : GenCheck(p)
  \/ \E p \in Procs : GenCall(p)
  \/ \E p \in Procs : GenResolve(p)
  \/ \E p \in Procs : GenCreate(p)
  \/ \E p \in Procs : GenRefetch(p)
  \/ \E p \in Procs : GenLog(p)

Spec == Init /\ [][Next]_vars

\* one generateNewBranches invocation next to an acceptNeighbor call on the
\* same graph, from the requested source to the first concept the
\* invocation may create; every call the invocation makes returns (or times
\* out into its error branch), so a step of it that is possible is
\* eventually taken
LivePairs == {<<1, 3>>}

GenerateStep(p) ==
  \/ GenCheck(p)
  \/ GenCall(p)
  \/ GenResolve(p)
  \/ GenCreate(p)
  \/ GenRefetch(p)
  \/ CreateEdgeInsert(p)
  \/ CreateEdgeSelect(p)
  \/ GenLog(p)

NextLive ==
  \/ StartGenerate(1)
  \/ GenCheck(1)
  \/ GenCall(1)
  \/ GenResolve(1)
  \/ GenCreate(1)
  \/ GenRefetch(1)
  \/ GenLog(1)
  \/ StartAcceptAmong(2, LivePairs)
  \/ \E p \in Procs : CreateEdgeInsert(p)
  \/ \E p \in Procs : CreateEdgeSelect(p)

SpecLive == Init /\ [][NextLive]_vars /\ WF_vars(GenerateStep(1))

\* the Edge Store alone: acceptNeighbor calls while the clock advances
NextEdge ==
  \/ Tick
  \/ \E p \in Procs : StartAccept(p)
  \/ \E p \in Procs : CreateEdgeInsert(p)
  \/ \E p \in Procs : CreateEdgeSelect(p)

SpecEdge == Init /\ [][NextEdge]_vars

\* the rate limiter alone: checkRateLimit and logGeneration called directly
\* (GET /api/user/rate-limit, the generation route) while the clock advances
Cap2(n) == IF n < 2 THEN n + 1 ELSE 2

RateCheck(u) ==
  /\ \E ok \in BOOLEAN :
       rl' = [valid |-> TRUE, user |-> u, ok |-> ok,
              res |-> CheckRateLimit(log, u, now, ok), at |-> now,
              afterCalls |-> 0, afterRows |-> 0,
              hasPrev |-> rl.valid /\ rl.user = u,
              prevOk |-> rl.ok, prev |-> rl.res, prevAt |-> rl.at,
              betweenCalls |-> rl.afterCalls, betweenRows |-> rl.afterRows]
  /\ UNCHANGED <<concepts, edges, log, now, ticks, faults, pc, call, batch, idx, cur, ret, wrote, nn, stats, stat, profiles, inc, graphData, exploration, onboarding>>

RateRecord(u) ==
  /\ LogRowsOf(log, u) < MaxLog
  /\ \E ok \in BOOLEAN :
       /\ log' = LogGeneration(log, u, now, ok)
       /\ rl' = IF rl.valid /\ rl.user = u
                THEN [rl EXCEPT !.afterCalls = Cap2(@),
                                !.afterRows = IF ok THEN Cap2(@) ELSE @]
                ELSE rl
  /\ UNCHANGED <<concepts, edges, now, ticks, faults, pc, call, batch, idx, cur, ret, wrote, nn, stats, stat, profiles, inc, graphData, exploration, onboarding>>

NextRate ==
  \/ Tick
  \/ \E u \in Users : RateCheck(u)
  \/ \E u \in Users : RateRecord(u)

SpecRate == Init /\ [][NextRate]_vars

\* the Nearest-Neighbor Resolver alone: concepts are created one after the
\* other and findNearestConcepts is called directly (offerBranches) once,
\* on the table as it then is
NearestNames ==
  <<(<<"a">>), (<<"b">>), (<<"a", "a">>), (<<"b", "b">>), (<<"b", "a">>), (<<"a", "b">>)>>

NearestEmbeddings == <<0, 1, 11, 0, NULL, 1>>

NearestQueries == {0, 2, 5}
NearestLimits == {1, 2, 3}
NearestExcludes == {{}, {3}, {1, 3}, {3, 6}, {3, 4, 5, 6}, {1, 3, 4, 5, GhostId}}

NearestCreate ==
  /\ ~ nn.valid
  /\ Len(concepts) < Len(NearestNames) + 2
  /\ LET k == Len(concepts) - 1
     IN concepts' = ConceptsAfterInsert(concepts, NearestNames[k], NearestEmbeddings[k])
  /\ UNCHANGED <<edges, log, now, ticks, faults, pc, call, batch, idx, cur, ret, wrote, rl, nn, stats, stat, profiles, inc, graphData, exploration, onboarding>>

NearestLookup ==
  /\ ~ nn.valid
  /\ \E q \in NearestQueries, limit \in NearestLimits, ex \in NearestExcludes,
        rpc \in RpcOutcomes :
       \E r \in FindNearestConcepts(concepts, q, limit, ex, rpc) :
         nn' = [valid |-> TRUE, q |-> q, limit |-> limit, excludeIds |-> ex,
                rpc |-> rpc, result |-> r, size |-> Len(concepts),
                offer |-> FALSE, source |-> NoId, canGenerate |-> FALSE]
  /\ UNCHANGED <<concepts, edges, log, now, ticks, faults, pc, call, batch, idx, cur, ret, wrote, rl, stats, stat, profiles, inc, graphData, exploration, onboarding>>

\* the number of neighbours offered (the default limit of findNearestConcepts)
OfferLimit == 3

\* offerBranches(source, user): the resolver is asked, with the stored
\* embedding of the source, for up to OfferLimit neighbours other than the
\* source; they are presented together with the "generate new" option
OfferBranches ==
  /\ ~ nn.valid
  /\ \E s \in ConceptIds, rpc \in RpcOutcomes :
       /\ HasEmbedding(concepts, s)
       /\ \E r \in FindNearestConcepts(concepts, concepts[s].embedding, OfferLimit, {s}, rpc) :
            nn' = [valid |-> TRUE, q |-> concepts[s].embedding, limit |-> OfferLimit,
                   excludeIds |-> {s}, rpc |-> rpc, result |-> r,
                   size |-> Len(concepts), offer |-> TRUE, source |-> s,
                   canGenerate |-> TRUE]
  /\ UNCHANGED <<concepts, edges, log, now, ticks, faults, pc, call, batch, idx, cur, ret, wrote, rl, stats, stat, profiles, inc, graphData, exploration, onboarding>>

NextNearest ==
  \/ NearestCreate
  \/ NearestLookup
  \/ OfferBranches

SpecNearest == Init /\ [][NextNearest]_vars

\* the Analytics Counter: after acceptNeighbor returned its edge the choice
\* is recorded with incrementBranchStat(source, branch type)
StatKey(p) == <<call[p].source, call[p].branch_type>>

\* the RPC; an error of it starts the manual path
StatRpc(p) ==
  /\ pc[p] = "done" /\ call[p].kind = "accept" /\ ret[p].outcome = "Edge"
  /\ stat[p].phase = "none"
  /\ \E ok \in BOOLEAN :
       IF ok
       THEN /\ stats' = IncrementBranchStatRpc(stats, StatKey(p)[1], StatKey(p)[2])
            /\ stat' = [stat EXCEPT ![p].phase = "finished",
                                     ![p].result = IncrementBranchStatResult(FALSE)]
       ELSE /\ stats' = stats
            /\ stat' = [stat EXCEPT ![p].phase = "select", ![p].failed = TRUE]
  /\ UNCHANGED <<concepts, edges, log, now, ticks, faults, pc, call, batch, idx, cur, ret, wrote, rl, nn, profiles, inc, graphData, exploration, onboarding>>

\* manual path: read the existing row; an error reads as no row
StatSelect(p) ==
  /\ stat[p].phase = "select"
  /\ \E ok \in BOOLEAN :
       LET id == IF ok THEN SelectStat(stats, StatKey(p)[1], StatKey(p)[2]) ELSE NoId
       IN stat' = [stat EXCEPT ![p].phase = "write", ![p].existing = id,
                               ![p].count = IF id = NoId THEN 0 ELSE stats[id].chosen_count]
  /\ UNCHANGED <<concepts, edges, log, now, ticks, faults, pc, call, batch, idx, cur, ret, wrote, rl, nn, stats, profiles, inc, graphData, exploration, onboarding>>

\* manual path: write the count read plus one, or insert a row with count 1;
\* an error of either is ignored
StatWrite(p) ==
  /\ stat[p].phase = "write"
  /\ \E ok \in BOOLEAN :
       stats' = IF ~ ok THEN stats
                ELSE IF stat[p].existing # NoId
                THEN StatsAfterUpdate(stats, stat[p].existing, stat[p].count + 1)
                ELSE StatsAfterInsert(stats, StatKey(p)[1], StatKey(p)[2])
  /\ stat' = [stat EXCEPT ![p].phase = "finished",
                           ![p].result = IncrementBranchStatResult(TRUE)]
  /\ UNCHANGED <<concepts, edges, log, now, ticks, faults, pc, call, batch, idx, cur, ret, wrote, rl, nn, profiles, inc, graphData, exploration, onboarding>>

NextStats ==
  \/ \E p \in Procs : StartAccept(p)
  \/ \E p \in Procs : CreateEdgeInsert(p)
  \/ \E p \in Procs : CreateEdgeSelect(p)
  \/ \E p \in Procs : StatRpc(p)
  \/ \E p \in Procs : StatSelect(p)
  \/ \E p \in Procs : StatWrite(p)

SpecStats == Init /\ [][NextStats]_vars

\* the exploration counter: incrementNodesExplored(userId) called by
\* concurrent requests; each call reads the profile, then writes it
MaxCalls == 2

UnlockThreshold == 10

\* incrementNodesExplored(userId) is called
IncStart(p) ==
  /\ inc.at[p].phase = "none"
  /\ inc.at[p].made < MaxCalls
  /\ \E u \in UsersOf(p) :
       inc' = [inc EXCEPT !.at[p] = [phase |-> "select", user |-> u, nodes_explored |-> 0,
                                     graph_unlocked |-> FALSE, made |-> @.made + 1]]
  /\ UNCHANGED <<graphVars, profiles, graphData, exploration, onboarding>>

\* "Get current count": the select; on an error the call returns
\* {nodesExplored: 0, graphUnlocked: false}
IncSelect(p) ==
  /\ inc.at[p].phase = "select"
  /\ LET u == inc.at[p].user
     IN \E ok \in BOOLEAN :
          inc' = IF ok
                 THEN [inc EXCEPT !.at[p].phase = "update",
                                  !.at[p].nodes_explored = profiles[u].nodes_explored,
                                  !.at[p].graph_unlocked = profiles[u].graph_unlocked]
                 ELSE [inc EXCEPT !.at[p].phase = "none",
                                  !.completed[u] = @ + 1,
                                  !.failed = TRUE]
  /\ UNCHANGED <<graphVars, profiles, graphData, exploration, onboarding>>

\* "Update the profile" with the count read plus one; an error of the
\* update is logged; the call returns the new count and the unlock flag
IncUpdate(p) ==
  /\ inc.at[p].phase = "update"
  /\ LET u == inc.at[p].user
         newCount == inc.at[p].nodes_explored + 1
         shouldUnlock == newCount >= UnlockThreshold
         unlocked == shouldUnlock \/ inc.at[p].graph_unlocked
     IN \E ok \in BOOLEAN :
          /\ profiles' = IF ok
                         THEN [profiles EXCEPT ![u].nodes_explored = newCount,
                                               ![u].graph_unlocked = unlocked]
                         ELSE profiles
          /\ inc' = [inc EXCEPT !.at[p].phase = "none",
                                !.at[p].nodes_explored = newCount,
                                !.at[p].graph_unlocked = unlocked,
                                !.completed[u] = @ + 1,
                                !.failed = @ \/ ~ ok]
  /\ UNCHANGED <<graphVars, graphData, exploration, onboarding>>

NextExplored ==
  \/ \E p \in Procs : IncStart(p)
  \/ \E p \in Procs : IncSelect(p)
  \/ \E p \in Procs : IncUpdate(p)

SpecExplored == Init /\ [][NextExplored]_vars

\* the client graph store (useGraphDataStore): the concepts and the edges
\* with their target the pages hand to it
GraphNames == <<"Stoicism", "Virtue", "Logos">>
GraphSlugs == <<"stoicism", "virtue", "logos">>

ClientConcept(id) == [id |-> id, name |-> GraphNames[id], slug |-> GraphSlugs[id]]

ClientConceptIds == 1..Len(GraphNames)

\* the rows getEdgesFromSource can hand over, each with its target concept
EdgeWithTarget(id, s, t, bt) ==
  [id |-> id, source_id |-> s, target_id |-> t, branch_type |-> bt,
   target |-> ClientConcept(t)]

ClientEdges ==
  {EdgeWithTarget(1, 1, 2, "constructive"), EdgeWithTarget(2, 1, 3, "critique"),
   EdgeWithTarget(3, 2, 3, "author"), EdgeWithTarget(4, 3, 1, "wildcard")}

\* the edge lists of source s: its edges, or some of them, in any order
EdgeListsFrom(s) ==
  LET from == {e \in ClientEdges : e.source_id = s}
  IN {<<>>} \cup {<<e>> : e \in from}
       \cup {<<ef[1], ef[2]>> : ef \in {x \in from \X from : x[1] # x[2]}}

\* addVisitedNode(concept)
AddVisitedNode(c) ==
  /\ graphData' =
       IF c.id \in graphData.visitedNodes
       THEN graphData
       ELSE [graphData EXCEPT
               !.visitedNodes = @ \cup {c.id},
               !.nodes = Append(@, [id |-> c.id, label |-> c.name, slug |-> c.slug,
                                    visited |-> TRUE])]
  /\ UNCHANGED <<graphVars, profiles, inc, exploration, onboarding>>

\* the body of addEdges' loop for one edge
AddOneEdge(g, edge) ==
  LET withEdge ==
        IF \E i \in 1..Len(g.edges) : g.edges[i].id = edge.id
        THEN g
        ELSE [g EXCEPT !.edges = Append(@, [id |-> edge.id, source |-> edge.source_id,
                                            target |-> edge.target_id,
                                            branchType |-> edge.branch_type])]
  IN IF \E i \in 1..Len(g.nodes) : g.nodes[i].id = edge.target_id
     THEN withEdge
     ELSE [withEdge EXCEPT
             !.nodes = Append(@, [id |-> edge.target.id, label |-> edge.target.name,
                                  slug |-> edge.target.slug,
                                  visited |-> edge.target.id \in g.visitedNodes])]

RECURSIVE AddEdgesLoop(_, _)
AddEdgesLoop(g, newEdges) ==
  IF newEdges = <<>> THEN g
  ELSE AddEdgesLoop(AddOneEdge(g, Head(newEdges)), Tail(newEdges))

\* addEdges(sourceId, newEdges)
AddEdges(sourceId) ==
  /\ \E newEdges \in EdgeListsFrom(sourceId) :
       graphData' = AddEdgesLoop(graphData, newEdges)
  /\ UNCHANGED <<graphVars, profiles, inc, exploration, onboarding>>

\* clearGraph()
ClearGraph ==
  /\ graphData' = [visitedNodes |-> {}, nodes |-> <<>>, edges |-> <<>>]
  /\ UNCHANGED <<graphVars, profiles, inc, exploration, onboarding>>

NextGraph ==
  \/ \E id \in ClientConceptIds : AddVisitedNode(ClientConcept(id))
  \/ \E id \in ClientConceptIds : AddEdges(id)
  \/ ClearGraph

SpecGraph == Init /\ [][NextGraph]_vars

\* the client exploration store (useExplorationStore): the path of slugs.
\* A return value is kept as a sequence: <<>> stands for undefined
MaxPath == 4

PathSlugs == {GraphSlugs[i] : i \in 1..Len(GraphSlugs)}

\* pushPath(slug)
PushPath(slug) ==
  /\ Len(exploration.path) < MaxPath
  /\ exploration' = [path |-> Append(exploration.path, slug), op |-> "pushPath",
                      returned |-> <<>>]
  /\ UNCHANGED <<graphVars, profiles, inc, graphData, onboarding>>

\* variant: only the empty path is left alone
PopPath_Unguarded ==
  /\ LET path == exploration.path
     IN exploration' =
          IF Len(path) <= 0
          THEN [path |-> path, op |-> "popPath", returned |-> <<>>]
          ELSE [path |-> SubSeq(path, 1, Len(path) - 1), op |-> "popPath",
                returned |-> <<path[Len(path)]>>]
  /\ UNCHANGED <<graphVars, profiles, inc, graphData, onboarding>>

\* popPath()
PopPath ==
  /\ LET path == exploration.path
     IN exploration' =
          IF Len(path) <= 1
          THEN [path |-> path, op |-> "popPath", returned |-> <<>>]
          ELSE [path |-> SubSeq(path, 1, Len(path) - 1), op |-> "popPath",
                returned |-> <<path[Len(path)]>>]
  /\ UNCHANGED <<graphVars, profiles, inc, graphData, onboarding>>

\* clearPath()
ClearPath ==
  /\ exploration' = [path |-> <<>>, op |-> "clearPath", returned |-> <<>>]
  /\ UNCHANGED <<graphVars, profiles, inc, graphData, onboarding>>

NextPath ==
  \/ \E slug \in PathSlugs : PushPath(slug)
  \/ PopPath
  \/ ClearPath

SpecPath == Init /\ [][NextPath]_vars

\* POST /api/onboarding/familiarity: requests are handled one after the
\* other; every database call of the handler may fail
MaxRequests == 2

NoUser == ""

validLevels == {"beginner", "intermediate", "advanced"}

TextRead == [text_name |-> "Republic", has_read |-> TRUE]
TextUnread == [text_name |-> "Republic", has_read |-> FALSE]
CategoryItem(level) == [category |-> "Ethics", subtopic |-> "Virtue", familiarity |-> level]

\* request bodies: two valid ones, one without texts, one without
\* categories, one with an unknown level, one that is not JSON
FamiliarityBodies ==
  [first |-> [json |-> TRUE, hasTexts |-> TRUE, texts |-> <<TextRead>>,
              hasCategories |-> TRUE, categories |-> <<CategoryItem("beginner")>>],
   second |-> [json |-> TRUE, hasTexts |-> TRUE, texts |-> <<TextUnread>>,
               hasCategories |-> TRUE, categories |-> <<CategoryItem("advanced")>>],
   noTexts |-> [json |-> TRUE, hasTexts |-> FALSE, texts |-> <<>>,
                hasCategories |-> TRUE, categories |-> <<CategoryItem("beginner")>>],
   noCategories |-> [json |-> TRUE, hasTexts |-> TRUE, texts |-> <<TextRead>>,
                     hasCategories |-> FALSE, categories |-> <<>>],
   badLevel |-> [json |-> TRUE, hasTexts |-> TRUE, texts |-> <<TextRead>>,
                 hasCategories |-> TRUE, categories |-> <<CategoryItem("expert")>>],
   malformed |-> [json |-> FALSE, hasTexts |-> FALSE, texts |-> <<>>,
                  hasCategories |-> FALSE, categories |-> <<>>]]

\* the status the validation of the handler answers with, 0 when it passes
ValidateFamiliarity(user, body) ==
  IF user = NoUser THEN 401
  ELSE IF ~ body.json THEN 500
  ELSE IF ~ body.hasTexts THEN 400
  ELSE IF ~ body.hasCategories THEN 400
  ELSE IF \E i \in 1..Len(body.categories) : body.categories[i].familiarity \notin validLevels
  THEN 400
  ELSE 0

\* saveTextFamiliarity: upsert on (user_id, text_name); an error is logged
SaveTextFamiliarity(tbl, u, texts, ok) ==
  IF ~ ok THEN tbl
  ELSE LET records == {[user_id |-> u, text_name |-> texts[i].text_name,
                        has_read |-> texts[i].has_read] : i \in 1..Len(texts)}
       IN {r \in tbl : ~ \E n \in records :
                           n.user_id = r.user_id /\ n.text_name = r.text_name}
            \cup records

\* saveCategoryFamiliarity: upsert on (user_id, category, subtopic); an
\* error is logged
SaveCategoryFamiliarity(tbl, u, categories, ok) ==
  IF ~ ok THEN tbl
  ELSE LET records == {[user_id |-> u, category |-> categories[i].category,
                        subtopic |-> categories[i].subtopic,
                        familiarity |-> categories[i].familiarity] :
                         i \in 1..Len(categories)}
       IN {r \in tbl : ~ \E n \in records :
                           /\ n.user_id = r.user_id /\ n.category = r.category
                           /\ n.subtopic = r.subtopic}
            \cup records

\* completeOnboarding: the update of user_profiles; an error is logged
CompleteOnboarding(ps, u, ok) ==
  IF ok THEN [ps EXCEPT ![u].onboarding_complete = TRUE] ELSE ps

\* the handler, for the session user (NoUser: not signed in) and a body
PostFamiliarity(user, name) ==
  /\ onboarding.requests < MaxRequests
  /\ LET body == FamiliarityBodies[name]
         status == ValidateFamiliarity(user, body)
     IN IF status # 0
        THEN /\ onboarding' = [onboarding EXCEPT
                                 !.requests = @ + 1, !.user = user, !.body = name,
                                 !.response = status, !.textsOk = FALSE,
                                 !.categoriesOk = FALSE, !.completeOk = FALSE]
             /\ profiles' = profiles
        ELSE \E textsOk, categoriesOk, completeOk \in BOOLEAN :
               /\ onboarding' = [onboarding EXCEPT
                     !.texts = SaveTextFamiliarity(@, user, body.texts, textsOk),
                     !.categories = SaveCategoryFamiliarity(@, user, body.categories,
                                                            categoriesOk),
                     !.requests = @ + 1, !.user = user, !.body = name,
                     !.response = 200, !.textsOk = textsOk,
                     !.categoriesOk = categoriesOk, !.completeOk = completeOk]
               /\ profiles' = CompleteOnboarding(profiles, user, completeOk)
  /\ UNCHANGED <<graphVars, inc, graphData, exploration>>

NextOnboarding ==
  \E user \in Users \cup {NoUser}, name \in DOMAIN FamiliarityBodies :
    PostFamiliarity(user, name)

SpecOnboarding == Init /\ [][NextOnboarding]_vars

\* ===================================================================
\* Properties
\* ===================================================================

\* the Edge objects createEdge has returned so far, to acceptNeighbor calls
\* and to the candidates of generateNewBranches calls
ReturnedEdges ==
  {ret[p].edge : p \in {q \in Procs : ret[q].outcome = "Edge"}}
  \cup UNION {{ret[p].edges[i] : i \in 1..Len(ret[p].edges)} : p \in Procs}

SamePair(e, f) == e.source_id = f.source_id /\ e.target_id = f.target_id

\* C1: in every reachable state the Edge Store holds at most one edge per
\* ordered pair (source, target), whatever acceptNeighbor calls and
\* generation-driven edge creations ran for the pair, one after the other
\* or interleaved.
C1_EdgePairUnique ==
  \A i, j \in 1..Len(edges) : SamePair(edges[i], edges[j]) => i = j

\* an acceptNeighbor call lost the insert race for a pair whose edge a
\* generateNewBranches call created
C1_Witness ==
  \E p, q \in Procs :
    /\ call[p].kind = "accept" /\ pc[p] = "edge_select"
    /\ call[q].kind = "generate"
    /\ \E i \in 1..Len(ret[q].edges) :
         /\ ret[q].edges[i].source_id = call[p].source
         /\ ret[q].edges[i].target_id = call[p].target

PairStored(es, s, t) ==
  \E i \in 1..Len(es) : es[i].source_id = s /\ es[i].target_id = t

StoredEdgeOfPair(es, s, t) ==
  LET i == CHOOSE k \in 1..Len(es) : es[k].source_id = s /\ es[k].target_id = t
  IN [id |-> i, source_id |-> s, target_id |-> t, branch_type |-> es[i].branch_type,
      description |-> es[i].description, created_at |-> es[i].created_at]

SlugOfCandidate(p, i) == Slugify(batch[p][i].target_name)

\* C4: no two stored concepts have the same slug, and every invocation that
\* tried to create a concept for a candidate uses the one stored concept
\* with the candidate's slug as the target, also when the creations raced.
C4_SlugUnique ==
  /\ \A i, j \in 1..Len(concepts) : concepts[i].slug = concepts[j].slug => i = j
  /\ \A p \in Procs : \A i \in 1..Len(ret[p].cands) :
       ret[p].cands[i].tried =>
         /\ ret[p].cands[i].target \in 1..Len(concepts)
         /\ concepts[ret[p].cands[i].target].slug = SlugOfCandidate(p, i)

\* two invocations tried to create a concept with one slug concurrently: the
\* loser looked before the winner's concept was stored, and both use it
C4_Witness ==
  \E p, q \in Procs : \E i \in 1..Len(ret[p].cands), j \in 1..Len(ret[q].cands) :
    /\ p # q
    /\ ret[p].cands[i].created
    /\ ret[q].cands[j].tried /\ ~ ret[q].cands[j].created
    /\ ret[q].cands[j].seen < ret[p].cands[i].target
    /\ ret[q].cands[j].target = ret[p].cands[i].target
    /\ batch[p][i].target_name # batch[q][j].target_name

GenerateCalls == {p \in Procs : call[p].kind = "generate"}

SimilarAtLookup(c) ==
  {k \in 1..c.seen :
     /\ concepts[k].embedding # NULL
     /\ Similarity(concepts[k].embedding, c.embedding) > MatchThreshold}

\* C6: for each candidate whose embedding is above the threshold to a
\* stored concept with an embedding, no concept is created and the edge
\* created for it has such a concept as its target.
C6_ReuseNearDuplicate ==
  \A p \in GenerateCalls : \A i \in 1..Len(ret[p].cands) :
    LET c == ret[p].cands[i]
    IN (c.embedding # NULL /\ SimilarAtLookup(c) # {})
       => /\ ~ c.created
          /\ c.target \in SimilarAtLookup(c)
          /\ ret[p].edges[i].target_id = c.target

\* ------------------------------------------------------------ rate limiter
RECURSIVE SumOver(_, _)
SumOver(f, S) ==
  IF S = {} THEN 0
  ELSE LET x == CHOOSE y \in S : TRUE IN f[x] + SumOver(f, S \ {x})

WindowTimes(t) == {g \in Times : t - WindowMinutes <= g /\ g <= t}

\* the number of u's log entries inside the trailing 60-minute window at t
WindowCount(u, t) ==
  SumOver([g \in Times |-> log[<<u, g>>]], WindowTimes(t))

\* the timestamp of u's oldest entry inside the window at t
OldestInWindow(u, t) ==
  CHOOSE g \in WindowTimes(t) :
    /\ log[<<u, g>>] > 0
    /\ \A h \in WindowTimes(t) : log[<<u, h>>] > 0 => g <= h

\* the last direct check is the latest thing that happened to its user
FreshCheck == rl.valid /\ rl.at = now /\ rl.afterCalls = 0

\* none of the user's entries left the window between the last two checks
NoneLeftBetween ==
  ~ \E g \in Times :
      /\ log[<<rl.user, g>>] > 0
      /\ g >= rl.prevAt - WindowMinutes
      /\ g < rl.at - WindowMinutes

C8_CheckResult ==
  /\ (FreshCheck /\ rl.ok) =>
       LET count == WindowCount(rl.user, now)
       IN /\ rl.res.allowed = (count < HOURLY_GENERATION_LIMIT)
          /\ rl.res.remaining = Max(0, HOURLY_GENERATION_LIMIT - count)
          /\ ~ rl.res.allowed =>
               /\ rl.res.remaining = 0
               /\ rl.res.resetAt = OldestInWindow(rl.user, now) + WindowMinutes
  /\ (/\ rl.valid /\ rl.ok /\ rl.hasPrev /\ rl.prevOk
      /\ ~ rl.prev.allowed /\ rl.at <= rl.prev.resetAt)
       => ~ rl.res.allowed /\ rl.res.remaining = 0

\* a denial whose window holds entries of two different times, the oldest
\* exactly 60 minutes old
C8_Witness ==
  /\ FreshCheck /\ rl.ok /\ ~ rl.res.allowed
  /\ rl.res.resetAt = now
  /\ log[<<rl.user, now>>] > 0
  /\ log[<<rl.user, now - WindowMinutes>>] > 0

\* a generateNewBranches call takes the step that ends it in GenerationFailed
EndsInGenerationFailed(p) ==
  /\ call[p].kind = "generate" /\ pc[p] # "done"
  /\ pc'[p] = "done" /\ ret'[p].outcome = "GenerationFailed"

\* C9: a generateNewBranches call whose generation timed out, was
\* unavailable or unparseable ends in GenerationFailed; a call that ends
\* in GenerationFailed has written no generation-log entry, and a check for
\* its user returns the same after its last step as before it.
C9_NoLogOnFailure ==
  /\ [](\A p \in GenerateCalls :
          /\ ret[p].service \in {"threw", "garbage"}
               => ret[p].outcome = "GenerationFailed"
          /\ ret[p].outcome = "GenerationFailed"
               => pc[p] = "done" /\ wrote[p].log = 0)
  /\ [][\A p \in Procs :
          EndsInGenerationFailed(p) =>
            /\ log' = log
            /\ CheckRateLimit(log', call[p].user, now', TRUE)
                 = CheckRateLimit(log, call[p].user, now, TRUE)]_vars

\* a call failed on a timeout after the other call had logged its generation
C9_Witness ==
  \E p, q \in GenerateCalls :
    /\ ret[p].outcome = "GenerationFailed" /\ ret[p].service = "threw"
    /\ ret[q].outcome = "Resolved" /\ wrote[q].log = 1
    /\ call[p].user = call[q].user

\* a batch as the Generation Service contract excludes it
FailsValidation(b) ==
  \/ Len(b) # 4
  \/ \E i \in 1..Len(b) :
       b[i].type \notin {"constructive", "critique", "author", "wildcard"}
  \/ \E i, j \in 1..Len(b) : i # j /\ b[i].type = b[j].type
  \/ \E i \in 1..Len(b) : b[i].target_name = <<>> \/ b[i].description = ""

\* C10: a batch that fails validation in any way makes generateNewBranches
\* return GenerationFailed having inserted no concept, no edge and no
\* generation-log entry.
C10_AllOrNothing ==
  \A p \in GenerateCalls :
    (ret[p].service = "text" /\ FailsValidation(ret[p].gen.branches))
      => /\ pc[p] = "done" /\ ret[p].outcome = "GenerationFailed"
         /\ wrote[p] = NoWrites
         /\ ret[p].edges = <<>>

\* a batch with one empty description was rejected while the stores hold
\* what another call created
C10_Witness ==
  \E p \in GenerateCalls :
    /\ ret[p].outcome = "GenerationFailed"
    /\ ret[p].gen.branches = BatchEmptyDescription
    /\ Len(edges) > 0 /\ Len(concepts) > 2

\* C11: a generateNewBranches call reaches the Generation Service only after
\* the Rate Limiter allowed it; a denied call ends in RateLimitExceeded with
\* remaining 0 and the reset time of the user's oldest entry in the window,
\* has not called the Generation Service and has written no concept, edge
\* or generation-log entry.
C11_LimiterFirst ==
  \A p \in GenerateCalls :
    /\ pc[p] = "gen_check" => ret[p].service = "" /\ wrote[p] = NoWrites
    /\ ret[p].outcome = "RateLimitExceeded" =>
         /\ pc[p] = "done"
         /\ ret[p].rateOk /\ ~ ret[p].rate.allowed
         /\ ret[p].rate.remaining = 0
         /\ ret[p].rate.resetAt = OldestInWindow(call[p].user, now) + WindowMinutes
         /\ ret[p].service = "" /\ ret[p].gen = NullGeneration
         /\ ret[p].edges = <<>>
         /\ wrote[p] = NoWrites

\* a user at 9 of 10 generated successfully and the same user's other call
\* was denied
C11_Witness ==
  \E p, q \in GenerateCalls :
    /\ call[p].user = call[q].user
    /\ ret[p].outcome = "RateLimitExceeded" /\ ret[p].rate.resetAt = WindowMinutes
    /\ ret[q].outcome = "Resolved" /\ wrote[q].log = 1

\* C12: a generateNewBranches call that ended in RESOLVED has appended
\* exactly one generation-log entry, however many of its candidates created
\* a concept; no call has appended more than one.
C12_OneLogEntry ==
  \A p \in GenerateCalls :
    /\ wrote[p].log <= 1
    /\ ret[p].outcome = "Resolved" =>
         /\ Len(ret[p].cands) = NumBranches
         /\ wrote[p].log = 1

\* ------------------------------------------------ nearest-neighbour search
\* similarity of stored concept i to the query of the last direct lookup
NnSimilarity(i) == Similarity(concepts[i].embedding, nn.q)

\* the concepts that qualified at the last direct lookup: stored then, with
\* an embedding, above the threshold, not excluded
NnQualifying ==
  {i \in 1..nn.size :
     /\ HasEmbedding(concepts, i)
     /\ NnSimilarity(i) > MatchThreshold
     /\ i \notin nn.excludeIds}

NnReturned == {nn.result[a] : a \in 1..Len(nn.result)}

\* C13: findNearest returns its neighbours in descending order of
\* similarity to the query, and when more concepts qualify than the limit
\* it returns exactly limit of them, none less similar than a qualifying
\* concept it left out; on every path of the lookup.
C13_OrderedTopLimit ==
  nn.valid =>
    /\ \A a, b \in 1..Len(nn.result) :
         a < b => NnSimilarity(nn.result[a]) >= NnSimilarity(nn.result[b])
    /\ Cardinality(NnQualifying) > nn.limit =>
         /\ Len(nn.result) = nn.limit
         /\ \A i \in NnReturned, j \in NnQualifying \ NnReturned :
              NnSimilarity(i) >= NnSimilarity(j)

\* C14: findNearest returns no excluded concept, no concept without an
\* embedding and at most limit concepts, and fewer than limit only when
\* fewer than limit concepts that are not excluded qualify.
C14_ExcludedNullLimit ==
  nn.valid =>
    /\ NnReturned \cap nn.excludeIds = {}
    /\ \A i \in NnReturned : i \in 1..nn.size /\ HasEmbedding(concepts, i)
    /\ Len(nn.result) <= nn.limit
    /\ Len(nn.result) < nn.limit => Cardinality(NnQualifying) < nn.limit

\* C15: a check whose count query failed returns allowed, whatever the
\* number of the user's entries in the window is.
C15_FailOpen ==
  (rl.valid /\ ~ rl.ok) => rl.res.allowed

\* the count query failed for a user whose window holds the full quota
C15_Witness ==
  /\ FreshCheck /\ ~ rl.ok
  /\ WindowCount(rl.user, now) >= HOURLY_GENERATION_LIMIT
  /\ rl.res.allowed

AcceptCalls == {p \in Procs : call[p].kind = "accept"}

\* an acceptNeighbor call takes a step
AcceptStep(p) == call'[p].kind = "accept" /\ pc'[p] # pc[p]

C17_AnalyticsSwallowed ==
  /\ [](\A p \in Procs :
          stat[p].phase = "finished" =>
            /\ stat[p].result = "void"
            /\ ret[p].outcome = "Edge"
            /\ ret[p].edge = EdgeObject(edges, ret[p].edge.id))
  /\ [][\A p \in Procs :
          stat'[p] # stat[p] =>
            /\ ret' = ret /\ pc' = pc
            /\ concepts' = concepts /\ edges' = edges]_vars

\* a counter update failed on every path and left no row, and the call
\* still has its edge
C17_Witness ==
  \E p \in Procs :
    /\ stat[p].phase = "finished" /\ stat[p].failed
    /\ stats = <<>>
    /\ ret[p].outcome = "Edge" /\ wrote[p].edges = 1

\* the chosen_count stored for a (concept, branch type), 0 without a row
ChosenCount(ss, key) ==
  IF StatUniqueViolation(ss, key[1], key[2])
  THEN ss[SelectStat(ss, key[1], key[2])].chosen_count
  ELSE 0

StatKeys == {StatKey(p) : p \in AcceptCalls}

\* C18: there is at most one counter row per (concept, branch type), its
\* chosen_count never decreases, and when k incrementBranchStat calls for a
\* (concept, branch type) have completed and none is under way, its
\* chosen_count is k.
C18_NoLostUpdate ==
  /\ [](/\ \A i, j \in 1..Len(stats) :
             (/\ stats[i].concept_id = stats[j].concept_id
              /\ stats[i].branch_type = stats[j].branch_type) => i = j
        /\ \A key \in StatKeys :
             LET calls == {p \in AcceptCalls : StatKey(p) = key}
             IN (\A p \in calls : stat[p].phase \in {"none", "finished"})
                => ChosenCount(stats, key) =
                     Cardinality({p \in calls : stat[p].phase = "finished"}))
  /\ [][\A key \in StatKeys : ChosenCount(stats', key) >= ChosenCount(stats, key)]_vars

C20_GraphOnlyGrows ==
  [][/\ Len(concepts') >= Len(concepts)
     /\ \A i \in 1..Len(concepts) :
          /\ concepts'[i].name = concepts[i].name
          /\ concepts'[i].slug = concepts[i].slug
          /\ \/ concepts'[i].embedding = concepts[i].embedding
             \/ concepts[i].embedding = NULL /\ concepts'[i].embedding # NULL
     /\ Len(edges') >= Len(edges)
     /\ \A i \in 1..Len(edges) : edges'[i] = edges[i]]_vars

\* the graph has grown by concepts and edges of both calls, and one call
\* is past a slug collision
C20_Witness ==
  /\ Len(concepts) > 3 /\ Len(edges) > 3
  /\ \E p, q \in Procs :
       /\ p # q
       /\ wrote[p].concepts > 0 /\ wrote[q].concepts > 0
       /\ cur[q].tried /\ ~ cur[q].created /\ pc[q] = "edge_insert"

\* ------------------------------------------------- referential integrity
\* an acceptNeighbor call one of whose concepts is not stored
MissingEndpoint(p) ==
  call[p].source \notin ConceptIds \/ call[p].target \notin ConceptIds

NnMinSimilarity == IF nn.offer THEN 0 ELSE MatchThreshold

\* the stored concepts that are embedded and not excluded
NnCandidates ==
  {i \in 1..nn.size : HasEmbedding(concepts, i) /\ i \notin nn.excludeIds}

\* C22: a lookup answered by the search function returns exactly the
\* embedded concepts that are not excluded and whose similarity is at least
\* the minimum, a similarity equal to the minimum included, cut to the
\* limit; a lookup for the neighbours to offer returns at least one concept
\* whenever an embedded concept that is not excluded exists.
C22_ThresholdInclusive ==
  (nn.valid /\ nn.rpc = "ok") =>
    LET atLeast == {i \in NnCandidates : NnSimilarity(i) >= NnMinSimilarity}
    IN /\ NnReturned \subseteq atLeast
       /\ Len(nn.result) = Min(nn.limit, Cardinality(atLeast))
       /\ (nn.offer /\ NnCandidates # {}) => nn.result # <<>>

\* C23: offerBranches returns at most three neighbours, never the source,
\* and when no concept qualifies it returns no neighbour, together with the
\* offer to generate.
C23_OfferBounded ==
  (nn.valid /\ nn.offer) =>
    /\ Len(nn.result) <= 3
    /\ nn.source \notin NnReturned
    /\ NnQualifying = {} => (nn.result = <<>> /\ nn.canGenerate)

\* ------------------------------------------------------------ termination
\* how far an invocation is: 0 before the request (START, OFFERING_NEIGHBORS),
\* 1 REQUESTED_GENERATION, 2 GENERATING, 3 RESOLVED or FAILED
StageOf(at) ==
  IF at = "idle" THEN 0
  ELSE IF at = "gen_check" THEN 1
  ELSE IF at = "done" THEN 3
  ELSE 2

PassedRequests(u) ==
  {p \in GenerateCalls : call[p].user = u /\ ret[p].rate.allowed}

\* the number of u's entries of table lg inside the window at t
WindowCountIn(lg, u, t) ==
  SumOver([g \in Times |-> lg[<<u, g>>]], WindowTimes(t))

\* C25 as claimed: the entries of a user inside the trailing 60-minute
\* window never exceed the limit by more than the number of the user's
\* requests that passed the limiter together minus one; not at all for a
\* single request.
C25_WindowBound ==
  \A u \in Users :
    WindowCount(u, now) <=
      HOURLY_GENERATION_LIMIT + Max(0, Cardinality(PassedRequests(u)) - 1)

\* C25, amended: the bound holds for a user all of whose checks had their
\* count query answered; and a request whose check was answered and that
\* records while the window still holds what its check counted (no other
\* request of the user recorded in between) leaves at most the limit.
C25_WindowBoundChecked ==
  /\ [](\A u \in Users :
          (\A p \in PassedRequests(u) : ret[p].rateOk) =>
            WindowCount(u, now) <=
              HOURLY_GENERATION_LIMIT + Max(0, Cardinality(PassedRequests(u)) - 1))
  /\ [][\A p \in GenerateCalls :
          (/\ pc[p] = "gen_log" /\ pc'[p] = "done"
           /\ ret[p].rateOk
           /\ WindowCount(call[p].user, now) =
                HOURLY_GENERATION_LIMIT - ret[p].rate.remaining)
            => WindowCountIn(log', call[p].user, now') <= HOURLY_GENERATION_LIMIT]_vars

\* two requests of one user passed answered checks together and both
\* recorded: the window holds one entry more than the limit
C25_Witness ==
  \E u \in Users :
    /\ Cardinality(PassedRequests(u)) = 2
    /\ \A p \in PassedRequests(u) :
         ret[p].rateOk /\ pc[p] = "done" /\ wrote[p].log = 1
    /\ WindowCount(u, now) = HOURLY_GENERATION_LIMIT + 1

C27_AtomicIncrement ==
  /\ []((~ inc.failed /\ \A p \in Procs : inc.at[p].phase = "none") =>
          \A u \in Users :
            profiles[u].nodes_explored = ExploredAtStart + inc.completed[u])
  /\ [](\A u \in Users :
          profiles[u].nodes_explored >= UnlockThreshold => profiles[u].graph_unlocked)
  /\ [][\A u \in Users :
          profiles[u].graph_unlocked => profiles'[u].graph_unlocked]_vars

\* ------------------------------------------------------- client graph store
\* C28: in the graph store no two nodes have the same id and no two edges
\* have the same id, whatever sequence of addVisitedNode, addEdges and
\* clearGraph produced it; a concept added as an edge target and visited
\* later is one node.
C28_UniqueIds ==
  /\ \A i, j \in 1..Len(graphData.nodes) :
       graphData.nodes[i].id = graphData.nodes[j].id => i = j
  /\ \A i, j \in 1..Len(graphData.edges) :
       graphData.edges[i].id = graphData.edges[j].id => i = j

\* ------------------------------------------------- client exploration store
\* C29: popPath on a path of length 0 or 1 returns undefined and leaves
\* the path as it is; on a longer path it removes exactly the last slug
\* and returns it; so it never empties a path that is not empty, and the
\* slug at the bottom stays.
C29_PopKeepsBottom ==
  [][exploration'.op = "popPath" =>
       LET path == exploration.path
           after == exploration'.path
       IN /\ IF Len(path) <= 1
             THEN after = path /\ exploration'.returned = <<>>
             ELSE /\ after = SubSeq(path, 1, Len(path) - 1)
                  /\ exploration'.returned = <<path[Len(path)]>>
          /\ Len(path) >= 1 => (Len(after) >= 1 /\ after[1] = path[1])]_vars

\* popPath was called on a path of one slug: undefined came back and the
\* slug is still there
C29_Witness ==
  /\ exploration.op = "popPath"
  /\ Len(exploration.path) = 1
  /\ exploration.returned = <<>>

\* ------------------------------------------------------------- onboarding
\* a request was handled in this step
FamiliarityHandled == onboarding'.requests = onboarding.requests + 1

\* C30: the handler sets onboarding_complete and answers success only when
\* both the text and the category records were stored; a request that is
\* unauthenticated or invalid writes nothing; and when either write fails,
\* onboarding_complete keeps its value and the answer is not success.
C30_CompleteOnlyWhenStored ==
  [][FamiliarityHandled =>
       LET stored == onboarding'.textsOk /\ onboarding'.categoriesOk
       IN /\ onboarding'.response = 200 => stored
          /\ profiles' # profiles => stored
          /\ onboarding'.response \in {400, 401} =>
               /\ onboarding'.texts = onboarding.texts
               /\ onboarding'.categories = onboarding.categories
               /\ profiles' = profiles
          /\ ~ stored => (profiles' = profiles /\ onboarding'.response # 200)]_vars

====
